---- MODULE Spec2Model ----
(***************************************************************************)
(* State machine of the Equipos component (src/src/Equipos.js; the copy in *)
(* src/unnamed/part_000 has the same code and differs in the base URL and  *)
(* the styles only).                                                       *)
(*                                                                         *)
(* JavaScript runs the handlers on one thread: a handler runs from its     *)
(* start, or from the resolution of the promise it awaits, up to its next  *)
(* await without interleaving.  Each action below is one such segment.     *)
(* `await fetch(...)` followed by `await response.json()` is one           *)
(* suspension (no state is read or written in between), and the            *)
(* continuation of `await fetchEquipos()` runs in the microtasks of the    *)
(* task that resolved the list request, before any other event.            *)
(*                                                                         *)
(* A nullable value is <<>> (null) or <<v>>.  Texts are strings.           *)
(***************************************************************************)
EXTENDS Integers, Sequences, FiniteSets, TLC

VARIABLES
  equipos,      \* useState([])     line 4: sequence of records
  formValues,   \* useState({...})  line 5
  loading,      \* useState(false)  line 11
  error,        \* useState(null)   line 12
  success,      \* useState(null)   line 13
  deletingId,   \* useState(null)   line 14
  mounted,      \* the mount effect (line 18) has run
  requests,     \* requests in flight, each with the handler awaiting it
  issued,       \* number of requests issued so far (the next request's number)
  actions,      \* number of submit / delete events handled so far
  lastOp,       \* history: the segment of fetchEquipos, handleSubmit or
                \* handleDelete that ran last, with its input
  lastList,     \* history: the last list response that arrived, with the
                \* number of its request and the highest number of a list
                \* request answered so far; or <<>>
  listIssued,   \* history: number of list (GET) requests issued
  createOk,     \* history: number of create requests answered with a 2xx status
  removeOk      \* history: number of delete requests answered with a 2xx status

vars == <<equipos, formValues, loading, error, success, deletingId, mounted,
          requests, issued, actions, lastOp, lastList, listIssued, createOk,
          removeOk>>

state == <<equipos, formValues, loading, error, success, deletingId>>

hist == <<lastList, listIssued, createOk, removeOk>>

\* Number of submit and delete events explored.
MaxActions == 2

Null == <<>>

Some(v) == <<v>>

----------------------------------------------------------------------------
(* Texts of the source *)

MsgCargar == "Error al cargar equipos"

MsgObligatorios == "Todos los campos son obligatorios"

MsgOrds == "Error en el servidor ORDS (555)"

MsgRegistrado == "Equipo registrado correctamente"

MsgEliminar == "Error al eliminar equipo"

MsgEliminado == "Equipo eliminado correctamente"

Hint == " - Verifica la configuración del endpoint REST"

OrdsStatus == 555

\* String.prototype.includes on the texts
Includes(s, sub) ==
  \E i \in 1..(Len(s) - Len(sub) + 1) : SubSeq(s, i, i + Len(sub) - 1) = sub

\* `Error ${response.status}`
ErrorStatus(status) == "Error " \o ToString(status)

\* a || b on a nullable text: the empty string and null are falsy
OrElse(a, b) == IF a # Null /\ a[1] # "" THEN a[1] ELSE b

\* !!deletingId: null and the number 0 are falsy
Truthy(v) == v # Null /\ v[1] # 0

\* response.ok
Ok(status) == status >= 200 /\ status <= 299

----------------------------------------------------------------------------
(* The backend, an external collaborator: what a request can be answered  *)
(* with.                                                                  *)

Equipo(i, n) ==
  [id |-> i, nombre |-> n, tipo |-> "Tool", ubicacion |-> "Shelf A",
   estado |-> "Activo"]

\* the `items` arrays the backend answers a list request with
ItemLists ==
  { <<>>,
    << Equipo(0, "Saw"), Equipo(1, "Drill") >>,
    << Equipo(1, "Drill"), Equipo(2, "Lathe"), Equipo(1, "Drill2") >> }

\* error.message of the TypeError fetch rejects with on a transport failure
TransportMsgs == { "Failed to fetch" }

\* error.message of the SyntaxError response.json() rejects with
JsonMsgs == { "Unexpected end of JSON input" }

\* the `message` field of a response body: absent, empty or a text
BodyMessages == { Null, Some(""), Some("bad config"), Some("ORA-20555") }

\* A response: sent = FALSE is a transport failure (fetch rejects with
\* thrown); otherwise status, and a body that parses (json = TRUE) into an
\* object with the fields message and items (each possibly absent) or does
\* not (response.json() rejects with thrown).
Transport(m) ==
  [sent |-> FALSE, status |-> 0, json |-> FALSE, message |-> Null,
   items |-> Null, thrown |-> m]

Unparseable(st, m) ==
  [sent |-> TRUE, status |-> st, json |-> FALSE, message |-> Null,
   items |-> Null, thrown |-> m]

Body(st, msg, its) ==
  [sent |-> TRUE, status |-> st, json |-> TRUE, message |-> msg,
   items |-> its, thrown |-> ""]

DeleteStatuses == { 200, 404 }

ListResponses ==
  { Transport(m) : m \in TransportMsgs }
  \cup { Unparseable(200, m) : m \in JsonMsgs }
  \cup { Body(200, Null, Some(l)) : l \in ItemLists }
  \cup { Body(200, Null, Null) }
  \cup { Body(500, msg, Null) : msg \in { Null, Some("bad config") } }

CreateResponses ==
  { Transport(m) : m \in TransportMsgs }
  \cup { Unparseable(st, m) : st \in { 201, 400 }, m \in JsonMsgs }
  \cup { Body(201, Null, Null) }
  \cup { Body(400, msg, Null) : msg \in BodyMessages }
  \cup { Body(555, msg, Null) : msg \in { Null, Some("bad config") } }

\* handleDelete never reads the body of the response
DeleteResponses ==
  { Transport(m) : m \in TransportMsgs }
  \cup { Body(st, Null, Null) : st \in DeleteStatuses }

----------------------------------------------------------------------------
(* The form *)

FieldNames == { "nombre", "tipo", "ubicacion", "estado" }

FieldValues == { "", "Saw" }

EmptyForm == [nombre |-> "", tipo |-> "", ubicacion |-> "", estado |-> ""]

\* Invalid without the check of estado
InvalidNoEstado(fv) ==
  fv.nombre = "" \/ fv.tipo = "" \/ fv.ubicacion = ""

\* the validation of handleSubmit, lines 58-63: !"" is true
Invalid(fv) ==
  fv.nombre = "" \/ fv.tipo = "" \/ fv.ubicacion = "" \/ fv.estado = ""

Init ==
  /\ equipos = <<>>
  /\ formValues = EmptyForm
  /\ loading = FALSE
  /\ error = Null
  /\ success = Null
  /\ deletingId = Null
  /\ mounted = FALSE
  /\ requests = {}
  /\ issued = 0
  /\ actions = 0
  /\ lastOp = [op |-> "init", arg |-> Null]
  /\ lastList = Null
  /\ listIssued = 0
  /\ createOk = 0
  /\ removeOk = 0

Request(kind, caller, id) ==
  [n |-> issued, kind |-> kind, caller |-> caller, id |-> id]

----------------------------------------------------------------------------
(* fetchEquipos, lines 22-40 *)

\* fetchEquipos up to its first await (lines 23-25), called by `caller`;
\* id is the argument of the handleDelete that called it, if any, and
\* pending the requests that stay in flight
FetchEquiposStart(caller, id, pending) ==
  /\ loading' = TRUE
  /\ requests' = pending \cup { Request("list", caller, id) }
  /\ issued' = issued + 1
  /\ listIssued' = listIssued + 1

\* the message of the error thrown in the try block (lines 25-30), or Null
FetchThrown(resp) ==
  IF ~resp.sent \/ ~resp.json THEN Some(resp.thrown)
  ELSE IF ~Ok(resp.status) THEN Some(OrElse(resp.message, MsgCargar))
  ELSE Null

\* FetchEquiposRecords whose catch block leaves the records as they are
FetchEquiposRecordsStale(resp) ==
  IF FetchThrown(resp) # Null THEN equipos
  ELSE IF resp.items # Null THEN resp.items[1] ELSE <<>>

\* FetchEquiposRecords appending the items to the records
FetchEquiposRecordsAppend(resp) ==
  IF FetchThrown(resp) # Null THEN <<>>
  ELSE IF resp.items # Null THEN equipos \o resp.items[1] ELSE <<>>

\* setEquipos(data.items || []) line 32, setEquipos([]) line 35
FetchEquiposRecords(resp) ==
  IF FetchThrown(resp) = Null /\ resp.items # Null THEN resp.items[1] ELSE <<>>

\* setError(null) line 33, setError(error.message) line 36
FetchEquiposError(resp) == FetchThrown(resp)

\* useEffect(() => { fetchEquipos(); }, []), lines 18-20
Mount ==
  /\ ~mounted
  /\ mounted' = TRUE
  /\ FetchEquiposStart("mount", Null, requests)
  /\ lastOp' = [op |-> "mount", arg |-> Null]
  /\ UNCHANGED <<equipos, formValues, error, success, deletingId, actions,
                 lastList, createOk, removeOk>>

\* DeletingIdAfterList without the finally block of handleDelete
DeletingIdAfterListKeep(caller) == deletingId

\* deletingId after the caller of fetchEquipos resumes: handleDelete's
\* finally, line 135
DeletingIdAfterList(caller) == IF caller = "delete" THEN Null ELSE deletingId

\* ListResponse whose catch block also clears success
ListResponseClears ==
  \E r \in requests, resp \in ListResponses :
    /\ r.kind = "list"
    /\ requests' = requests \ { r }
    /\ equipos' = FetchEquiposRecords(resp)
    /\ error' = FetchEquiposError(resp)
    /\ loading' = FALSE
    /\ deletingId' = DeletingIdAfterList(r.caller)
    /\ lastList' = Some([resp |-> resp, n |-> r.n,
                         newest |-> IF lastList = Null \/ r.n > lastList[1].newest
                                      THEN r.n ELSE lastList[1].newest])
    /\ lastOp' = [op |-> "listResponse",
                  arg |-> [resp |-> resp, caller |-> r.caller,
                           shown |-> equipos # <<>>]]
    /\ success' = (IF FetchThrown(resp) # Null THEN Null ELSE success)
    /\ UNCHANGED <<formValues, mounted, issued, actions, listIssued,
                   createOk, removeOk>>

\* The response to a list request arrives: lines 26-39, then the rest of the
\* caller after `await fetchEquipos()`: the finally of handleSubmit (line
\* 102) or of handleDelete (line 135).  fetchEquipos catches every error, so
\* the caller's catch block does not run.
ListResponse ==
  \E r \in requests, resp \in ListResponses :
    /\ r.kind = "list"
    /\ requests' = requests \ { r }
    /\ equipos' = FetchEquiposRecords(resp)
    /\ error' = FetchEquiposError(resp)
    /\ loading' = FALSE
    /\ deletingId' = DeletingIdAfterList(r.caller)
    /\ lastList' = Some([resp |-> resp, n |-> r.n,
                         newest |-> IF lastList = Null \/ r.n > lastList[1].newest
                                      THEN r.n ELSE lastList[1].newest])
    /\ lastOp' = [op |-> "listResponse",
                  arg |-> [resp |-> resp, caller |-> r.caller,
                           shown |-> equipos # <<>>]]
    /\ UNCHANGED <<formValues, success, mounted, issued, actions, listIssued,
                   createOk, removeOk>>

----------------------------------------------------------------------------
(* handleChange, lines 42-48 *)

handleChange ==
  \E name \in FieldNames, value \in FieldValues :
    /\ mounted
    /\ formValues[name] # value
    /\ formValues' = [formValues EXCEPT ![name] = value]
    /\ UNCHANGED <<equipos, loading, error, success, deletingId, mounted,
                   requests, issued, actions, lastOp, hist>>

----------------------------------------------------------------------------
(* handleSubmit, lines 50-104 *)

\* SubmitThrown reading the body only when the status is outside 2xx
SubmitThrownOkFirst(resp) ==
  IF ~resp.sent THEN Some(resp.thrown)
  ELSE IF ~Ok(resp.status)
    THEN IF ~resp.json THEN Some(resp.thrown)
         ELSE IF resp.status = OrdsStatus
           THEN Some(OrElse(resp.message, MsgOrds))
           ELSE Some(OrElse(resp.message, ErrorStatus(resp.status)))
  ELSE Null

\* the message of the error thrown in the try block (lines 75-88), or Null
SubmitThrown(resp) ==
  IF ~resp.sent \/ ~resp.json THEN Some(resp.thrown)
  ELSE IF ~Ok(resp.status)
    THEN IF resp.status = OrdsStatus
           THEN Some(OrElse(resp.message, MsgOrds))
           ELSE Some(OrElse(resp.message, ErrorStatus(resp.status)))
  ELSE Null

\* the catch block, lines 95-100
SubmitError(msg) == IF Includes(msg, "555") THEN msg \o Hint ELSE msg

\* handleSubmitStart without setSuccess(null)
handleSubmitStartKeep ==
  /\ mounted
  /\ actions < MaxActions
  /\ actions' = actions + 1
  /\ IF Invalid(formValues)
       THEN /\ error' = Some(SubmitError(MsgObligatorios))
            /\ loading' = FALSE
            /\ UNCHANGED <<requests, issued>>
       ELSE /\ error' = Null
            /\ loading' = TRUE
            /\ requests' = requests \cup { Request("create", "submit", Null) }
            /\ issued' = issued + 1
  /\ lastOp' = [op |-> "submit",
                arg |-> [form |-> formValues,
                         had |-> error # Null \/ success # Null]]
  /\ UNCHANGED <<equipos, formValues, success, deletingId, mounted, hist>>

\* lines 51-78: up to the await of the POST, or through catch and finally
\* when the validation throws
handleSubmitStart ==
  /\ mounted
  /\ actions < MaxActions
  /\ actions' = actions + 1
  /\ success' = Null
  /\ IF Invalid(formValues)
       THEN /\ error' = Some(SubmitError(MsgObligatorios))
            /\ loading' = FALSE
            /\ UNCHANGED <<requests, issued>>
       ELSE /\ error' = Null
            /\ loading' = TRUE
            /\ requests' = requests \cup { Request("create", "submit", Null) }
            /\ issued' = issued + 1
  /\ lastOp' = [op |-> "submit",
                arg |-> [form |-> formValues,
                         had |-> error # Null \/ success # Null]]
  /\ UNCHANGED <<equipos, formValues, deletingId, mounted, hist>>

\* The submit button (line 178, disabled={loading}) of the form whose
\* fields are `required` (lines 156, 168): the browser submits only when
\* the button is enabled and no field is empty.
SubmitButton ==
  /\ ~loading
  /\ ~Invalid(formValues)
  /\ handleSubmitStart

\* A submit event dispatched on the form (onSubmit, line 145) reaches
\* handleSubmit whatever the button's state and the fields' contents.
SubmitEvent == handleSubmitStart

\* SubmitFormValues with the reset of the form in the finally block
SubmitFormValuesAlways(resp) == EmptyForm

\* formValues after the response to the POST: reset on success (line 92)
SubmitFormValues(resp) ==
  IF SubmitThrown(resp) = Null THEN EmptyForm ELSE formValues

\* The response to the POST of handleSubmit arrives: lines 80-103; on
\* success the handler suspends again in fetchEquipos (line 93).
CreateResponse ==
  \E r \in requests, resp \in CreateResponses :
    /\ r.kind = "create"
    /\ createOk' = IF resp.sent /\ Ok(resp.status) THEN createOk + 1
                   ELSE createOk
    /\ IF SubmitThrown(resp) = Null
         THEN /\ success' = Some(MsgRegistrado)
              /\ FetchEquiposStart("submit", Null, requests \ { r })
              /\ UNCHANGED error
         ELSE /\ error' = Some(SubmitError(SubmitThrown(resp)[1]))
              /\ loading' = FALSE
              /\ requests' = requests \ { r }
              /\ UNCHANGED <<success, issued, listIssued>>
    /\ formValues' = SubmitFormValues(resp)
    /\ lastOp' = [op |-> "createResponse", arg |-> resp]
    /\ UNCHANGED <<equipos, deletingId, mounted, actions, lastList, removeOk>>

----------------------------------------------------------------------------
(* handleDelete, lines 106-137 *)

\* the ids of the rows whose delete button can be clicked: the table is
\* rendered when equipos is not empty (lines 191-195), and every button is
\* disabled={!!deletingId} (line 218)
Clickable ==
  IF Truthy(deletingId) THEN {}
  ELSE { equipos[i].id : i \in 1..Len(equipos) }

\* DeleteDeclined with the confirmation asked after lines 110-112
DeleteDeclinedLate ==
  \E id \in Clickable :
    /\ mounted
    /\ actions < MaxActions
    /\ actions' = actions + 1
    /\ error' = Null
    /\ success' = Null
    /\ deletingId' = Null
    /\ lastOp' = [op |-> "deleteDeclined", arg |-> id]
    /\ UNCHANGED <<equipos, formValues, loading, mounted, requests, issued,
                   hist>>

\* window.confirm answered with Cancel, line 107
DeleteDeclined ==
  \E id \in Clickable :
    /\ mounted
    /\ actions < MaxActions
    /\ actions' = actions + 1
    /\ lastOp' = [op |-> "deleteDeclined", arg |-> id]
    /\ UNCHANGED <<state, mounted, requests, issued, hist>>

\* window.confirm answered with OK: lines 107-122, up to the await
DeleteConfirmed ==
  \E id \in Clickable :
    /\ mounted
    /\ actions < MaxActions
    /\ actions' = actions + 1
    /\ deletingId' = Some(id)
    /\ error' = Null
    /\ success' = Null
    /\ requests' = requests \cup { Request("delete", "delete", Some(id)) }
    /\ issued' = issued + 1
    /\ lastOp' = [op |-> "deleteConfirmed", arg |-> id]
    /\ UNCHANGED <<equipos, formValues, loading, mounted, hist>>

\* Filter taking out the first record with the id only
FilterFirst(prev, id) ==
  IF \E i \in 1..Len(prev) : prev[i].id = id
    THEN LET k == CHOOSE i \in 1..Len(prev) :
                    /\ prev[i].id = id
                    /\ \A j \in 1..(i - 1) : prev[j].id # id
         IN SubSeq(prev, 1, k - 1) \o SubSeq(prev, k + 1, Len(prev))
    ELSE prev

\* prev.filter((e) => e.id !== id), line 130
Filter(prev, id) == SelectSeq(prev, LAMBDA e : e.id # id)

\* the message of the error thrown in the try block (lines 119-126), or Null
DeleteThrown(resp) ==
  IF ~resp.sent THEN Some(resp.thrown)
  ELSE IF ~Ok(resp.status) THEN Some(MsgEliminar)
  ELSE Null

\* DeletingIdAfterDelete with setDeletingId(null) at the end of the try
\* block instead of in finally
DeletingIdAfterDeleteNoFinally(resp) == deletingId

\* deletingId after the response to the POST: kept while the handler awaits
\* fetchEquipos (line 131), cleared by finally (line 135) when it threw
DeletingIdAfterDelete(resp) ==
  IF DeleteThrown(resp) = Null THEN deletingId ELSE Null

\* The response to the POST of handleDelete arrives: lines 124-136; on
\* success the handler suspends again in fetchEquipos (line 131).
DeleteResponse ==
  \E r \in requests, resp \in DeleteResponses :
    /\ r.kind = "delete"
    /\ removeOk' = IF resp.sent /\ Ok(resp.status) THEN removeOk + 1
                   ELSE removeOk
    /\ IF DeleteThrown(resp) = Null
         THEN /\ success' = Some(MsgEliminado)
              /\ equipos' = Filter(equipos, r.id[1])
              /\ FetchEquiposStart("delete", r.id, requests \ { r })
              /\ UNCHANGED error
         ELSE /\ error' = DeleteThrown(resp)
              /\ requests' = requests \ { r }
              /\ UNCHANGED <<success, equipos, loading, issued, listIssued>>
    /\ deletingId' = DeletingIdAfterDelete(resp)
    /\ lastOp' = [op |-> "deleteResponse", arg |-> resp]
    /\ UNCHANGED <<formValues, mounted, actions, lastList, createOk>>

----------------------------------------------------------------------------

\* the component in a browser: the form is submitted with its button
NextUI ==
  \/ Mount
  \/ ListResponse
  \/ handleChange
  \/ SubmitButton
  \/ CreateResponse
  \/ DeleteDeclined
  \/ DeleteConfirmed
  \/ DeleteResponse

SpecUI == Init /\ [][NextUI]_vars

\* the same, and submit events dispatched on the form
Next ==
  \/ Mount
  \/ ListResponse
  \/ handleChange
  \/ SubmitButton
  \/ SubmitEvent
  \/ CreateResponse
  \/ DeleteDeclined
  \/ DeleteConfirmed
  \/ DeleteResponse

Spec == Init /\ [][Next]_vars

\* The removes and what runs beside them while the form is left empty:
\* lists, and submits that fail their validation.  handleChange and the
\* responses to the POST of handleSubmit write neither deletingId nor the
\* requests of handleDelete.
NextLive ==
  \/ Mount
  \/ ListResponse
  \/ SubmitEvent
  \/ DeleteDeclined
  \/ DeleteConfirmed
  \/ DeleteResponse

\* every request in flight is answered in the end (or fails in transport)
Fairness ==
  /\ WF_vars(ListResponse)
  /\ WF_vars(DeleteResponse)

SpecLive == Init /\ [][NextLive]_vars /\ Fairness

----------------------------------------------------------------------------
(* Properties *)

\* the requests of the kinds that isBusy covers
BusyRequests == { r \in requests : r.kind \in { "list", "create" } }

\* the delete handlers between confirmation and finally: each awaits one
\* request, its POST or the list that follows it
DeleteHandlers == { r \in requests : r.caller = "delete" }

\* a list or create response that is no success for the caller: no
\* response, a body that does not parse, or a status outside 2xx
Failed(resp) == ~resp.sent \/ ~resp.json \/ resp.status < 200 \/ resp.status > 299

\* steps of the handlers: a submit or a delete event counts in actions, a
\* response takes its request out of requests
SubmitStep == actions' = actions + 1 /\ lastOp'.op = "submit"

DeclineStep == actions' = actions + 1 /\ lastOp'.op = "deleteDeclined"

CreateResponseStep ==
  /\ lastOp'.op = "createResponse"
  /\ \E r \in requests \ requests' : r.kind = "create"

SomeFieldEmpty(fv) == \E name \in FieldNames : fv[name] = ""

\* C1: in every reachable state at most one delete handler (its request or
\* its follow-up list) is outstanding, whatever the id of the row.
C1_OneDeleteInFlight == Cardinality(DeleteHandlers) <= 1

\* C2: after a create response with status 555 and a JSON body, error is the
\* body's message (the 555 fallback text when it has none) followed by the
\* hint.
C2_Hint555 ==
  (/\ lastOp.op = "createResponse"
   /\ lastOp.arg.sent /\ lastOp.arg.json
   /\ lastOp.arg.status = 555)
  => error = Some(OrElse(lastOp.arg.message, MsgOrds) \o Hint)

\* C3: loading is true in every state in which a list or create request is
\* outstanding.
C3_BusyWhileOutstanding == BusyRequests # {} => loading

\* C4: in every reachable state at most one of error and success is present.
C4_OneMessage == ~(error # Null /\ success # Null)

\* C5: whenever no request is outstanding and the last list response to
\* arrive was successful, equipos is exactly that response's items (empty
\* when it has none), whatever the order the list requests were issued in
\* and whatever was removed from equipos before.
C5_LastListWins ==
  (requests = {} /\ lastList # Null /\ ~Failed(lastList[1].resp))
  => equipos = (IF lastList[1].resp.items # Null
                  THEN lastList[1].resp.items[1] ELSE <<>>)

\* C5 witness: all requests are answered, a record was removed on a delete's
\* success, and the list response that arrived last, a successful one with
\* items, belongs to a request issued before one answered earlier.
C5_Witness ==
  /\ requests = {}
  /\ lastList # Null
  /\ ~Failed(lastList[1].resp)
  /\ lastList[1].n < lastList[1].newest
  /\ removeOk >= 1
  /\ equipos # <<>>

\* C6: a submit with at least one empty field issues no request, sets error
\* to the validation text, leaves success absent and leaves formValues and
\* equipos as they were.
C6_InvalidDraft ==
  [][(SubmitStep /\ SomeFieldEmpty(formValues))
     => /\ requests' = requests
        /\ issued' = issued
        /\ listIssued' = listIssued
        /\ error' = Some(MsgObligatorios)
        /\ success' = Null
        /\ formValues' = formValues
        /\ equipos' = equipos]_vars

\* C6 witness: a submit of a draft with an empty and a filled field has
\* run while records were displayed.
C6_Witness ==
  /\ lastOp.op = "submit"
  /\ SomeFieldEmpty(lastOp.arg.form)
  /\ lastOp.arg.form # EmptyForm
  /\ equipos # <<>>
  /\ error = Some(MsgObligatorios)

\* C7: a submit of a draft with four non-empty fields issues exactly one
\* POST, and whenever that POST is answered with a 2xx status formValues is
\* reset to four empty strings and success is set.
C7_ValidDraft ==
  [][/\ (SubmitStep /\ ~SomeFieldEmpty(formValues))
        => /\ Cardinality(requests' \ requests) = 1
           /\ \A r \in requests' \ requests : r.kind = "create"
           /\ requests \subseteq requests'
     /\ (/\ CreateResponseStep
         /\ lastOp'.arg.sent
         /\ lastOp'.arg.status >= 200 /\ lastOp'.arg.status <= 299)
        => /\ formValues' = EmptyForm
           /\ success' # Null]_vars

\* C8: once mounted, the number of list requests issued is one plus the
\* number of creates answered with 2xx plus the number of removes answered
\* with 2xx.
C8_ListCount == mounted => listIssued = 1 + createOk + removeOk

\* C9: after a list response that failed (no response, a status outside
\* 2xx or a body that does not parse) equipos is empty and error is set,
\* whoever called fetchEquipos.
C9_FailedListClears ==
  (lastOp.op = "listResponse" /\ Failed(lastOp.arg.resp))
  => /\ equipos = <<>>
     /\ error # Null
     /\ error # Some("")

\* C9 witness: the list that follows a successful create failed while
\* records were displayed.
C9_Witness ==
  /\ lastOp.op = "listResponse"
  /\ Failed(lastOp.arg.resp)
  /\ lastOp.arg.caller = "submit"
  /\ lastOp.arg.shown
  /\ equipos = <<>>

\* C10: a declined confirmation issues no request and leaves equipos,
\* deletingId, error, success, formValues and loading as they were.
C10_DeclineNoChange ==
  [][DeclineStep
     => /\ UNCHANGED <<equipos, deletingId, error, success, formValues,
                       loading>>
        /\ UNCHANGED <<requests, issued, listIssued>>]_vars

\* C10 witness: a confirmation was declined while records and a message
\* were displayed and a request was in flight.
C10_Witness ==
  /\ lastOp.op = "deleteDeclined"
  /\ equipos # <<>>
  /\ success # Null
  /\ requests # {}

DeleteResponseStep ==
  /\ lastOp'.op = "deleteResponse"
  /\ \E r \in requests \ requests' : r.kind = "delete"

ListResponseStep ==
  /\ lastOp'.op = "listResponse"
  /\ \E r \in requests \ requests' : r.kind = "list"

\* the ids of the records of a sequence
IdsOf(seq) == { seq[i].id : i \in 1..Len(seq) }

\* seq without its records with the id, the others in their order
RECURSIVE Without(_, _)
Without(seq, id) ==
  IF seq = <<>> THEN <<>>
  ELSE IF Head(seq).id = id THEN Without(Tail(seq), id)
  ELSE <<Head(seq)>> \o Without(Tail(seq), id)

\* C11: the step in which a delete request is answered with 2xx takes every
\* record with the request's id out of equipos and keeps the others in
\* their order, sets success and issues the reconciling list for that
\* handler; and only a list response ever adds a record to equipos, so no
\* record with the id is there before the next list response arrives.
C11_OptimisticRemoval ==
  [][/\ (/\ DeleteResponseStep
         /\ lastOp'.arg.sent
         /\ lastOp'.arg.status >= 200 /\ lastOp'.arg.status <= 299)
        => \E r \in requests \ requests' :
             /\ equipos' = Without(equipos, r.id[1])
             /\ success' = Some(MsgEliminado)
             /\ \E l \in requests' \ requests :
                  l.kind = "list" /\ l.caller = "delete" /\ l.id = r.id
             /\ listIssued' = listIssued + 1
     /\ ~ListResponseStep => IdsOf(equipos') \subseteq IdsOf(equipos)]_vars

\* C11 witness: the delete of the id that two of three displayed records
\* carry was answered 2xx: the third record is left and the reconciling
\* list is in flight.
C11_Witness ==
  /\ lastOp.op = "deleteResponse"
  /\ lastOp.arg.sent /\ lastOp.arg.status = 200
  /\ equipos = << Equipo(2, "Lathe") >>
  /\ success = Some(MsgEliminado)
  /\ \E l \in requests : l.kind = "list" /\ l.caller = "delete" /\ l.id = <<1>>

\* C12: provided every request is answered, whenever confirmed removes are
\* in flight they all come to their end, and deletingId is null then,
\* whatever the delete requests and the reconciling lists are answered with.
C12_DeletingIdCleared ==
  (DeleteHandlers # {}) ~> (DeleteHandlers = {} /\ deletingId = Null)

\* C12 witness: a remove whose delete request was answered 2xx and whose
\* reconciling list failed has come to its end, with deletingId null.
C12_Witness ==
  /\ lastOp.op = "listResponse"
  /\ lastOp.arg.caller = "delete"
  /\ Failed(lastOp.arg.resp)
  /\ DeleteHandlers = {}
  /\ deletingId = Null

\* C13: a create that fails, by validation, in transport, with a status
\* outside 2xx (555 among them) or with a body that does not parse, leaves
\* formValues as the user entered them.
C13_DraftKeptOnFailure ==
  [][(\/ SubmitStep /\ SomeFieldEmpty(formValues)
      \/ CreateResponseStep /\ Failed(lastOp'.arg))
     => formValues' = formValues]_vars

\* C13 witness: a create of a filled draft was answered with status 555 and
\* the draft is still filled.
C13_Witness ==
  /\ lastOp.op = "createResponse"
  /\ lastOp.arg.sent /\ lastOp.arg.status = 555
  /\ ~SomeFieldEmpty(formValues)
  /\ error # Null

\* C14: when the delete request of a confirmed remove is answered with a
\* status outside 2xx or fails in transport, error is the generic delete
\* failure text, the remove does not set success, equipos is unchanged and
\* no request is issued.
C14_DeleteFailure ==
  [][(DeleteResponseStep
      /\ (~lastOp'.arg.sent \/ lastOp'.arg.status < 200
          \/ lastOp'.arg.status > 299))
     => /\ error' = Some(MsgEliminar)
        /\ success' = success
        /\ equipos' = equipos
        /\ requests' \subseteq requests
        /\ listIssued' = listIssued]_vars

\* C15: the first segment of every create attempt leaves success null and
\* error null, or, when the validation of this attempt fails, error set to
\* the validation text: no message of an earlier action is left.
C15_MessagesCleared ==
  [][SubmitStep
     => /\ success' = Null
        /\ error' = (IF SomeFieldEmpty(formValues) THEN Some(MsgObligatorios)
                     ELSE Null)]_vars

\* C15 witness: a filled draft was submitted while a message of an earlier
\* action was displayed; its POST is in flight and no message is left.
C15_Witness ==
  /\ lastOp.op = "submit"
  /\ lastOp.arg.had
  /\ ~SomeFieldEmpty(lastOp.arg.form)
  /\ error = Null
  /\ success = Null
  /\ \E r \in requests : r.kind = "create"

\* C16: after a create response with a JSON body and a status outside 2xx
\* other than 555, error is exactly the message of the body when it has
\* one, else "Error <status>", without the hint.
C16_NoHintOther ==
  (/\ lastOp.op = "createResponse"
   /\ lastOp.arg.sent /\ lastOp.arg.json
   /\ (lastOp.arg.status < 200 \/ lastOp.arg.status > 299)
   /\ lastOp.arg.status # 555)
  => error = Some(IF lastOp.arg.message # Null /\ lastOp.arg.message # Some("")
                    THEN lastOp.arg.message[1]
                    ELSE "Error " \o ToString(lastOp.arg.status))

\* C17: in every state in which no request is in flight, so that no
\* handler is suspended, loading is false and deletingId is null.
C17_BackToIdle == requests = {} => (~loading /\ deletingId = Null)

\* C17 witness: a create and a remove that overlapped have both succeeded,
\* their lists were answered out of order, and nothing is in flight.
C17_Witness ==
  /\ requests = {}
  /\ createOk >= 1
  /\ removeOk >= 1
  /\ lastList # Null
  /\ lastList[1].n < lastList[1].newest
  /\ ~loading
  /\ deletingId = Null

\* C18: while the reconciling list of a successful delete is in flight,
\* deletingId is still the id of that delete and no delete button can be
\* clicked.
C18_SetUntilListDone ==
  \A r \in requests :
    (r.kind = "list" /\ r.caller = "delete")
    => (deletingId = r.id /\ Clickable = {})

\* C19: the start of fetchEquipos on mount and the response to a list
\* request leave formValues and success as they are, and deletingId too
\* (the handleDelete that awaited the list clears it in its finally block,
\* in the same segment).
C19_ListFrame ==
  [][/\ ListResponseStep
        => /\ formValues' = formValues
           /\ success' = success
           /\ (lastOp'.arg.caller # "delete" => deletingId' = deletingId)
     /\ (~mounted /\ mounted')
        => UNCHANGED <<formValues, success, deletingId, equipos, error>>]_vars

\* C19 witness: the list that follows a successful create has failed and
\* the success message of the create is still displayed beside the error.
C19_Witness ==
  /\ lastOp.op = "listResponse"
  /\ lastOp.arg.caller = "submit"
  /\ Failed(lastOp.arg.resp)
  /\ success = Some(MsgRegistrado)
  /\ error # Null

\* C20: a create response whose body does not parse, with whatever status,
\* sets error, does not set success, leaves formValues as they are and
\* issues no request.
C20_UnparseableCreate ==
  [][(CreateResponseStep /\ lastOp'.arg.sent /\ ~lastOp'.arg.json)
     => /\ error' # Null /\ error' # Some("")
        /\ success' = success
        /\ formValues' = formValues
        /\ requests' \subseteq requests
        /\ listIssued' = listIssued]_vars

\* C20 witness: a create was answered with status 201 and a body that does
\* not parse: the draft is still filled, error is set, success is absent
\* and nothing is in flight.
C20_Witness ==
  /\ lastOp.op = "createResponse"
  /\ lastOp.arg.sent /\ ~lastOp.arg.json /\ lastOp.arg.status = 201
  /\ ~SomeFieldEmpty(formValues)
  /\ error # Null
  /\ success = Null
  /\ requests = {}

====
